---- MODULE Spec2Model ----
(***************************************************************************)
(* GateKeeper backend: the configuration loader (utils.py), the schema     *)
(* (models.py), the network probe engine (probe.py), the rule engine       *)
(* (rules.py) and the HTTP endpoints (main.py).                            *)
(*                                                                         *)
(* Text is a sequence of one-character strings, so that slicing, joining   *)
(* and searching are computed.  An Optional value is a sequence of length  *)
(* at most one: None is <<>>, a present value v is <<v>>.                  *)
(***************************************************************************)
EXTENDS Integers, Sequences, FiniteSets, TLC

None == <<>>
Some(v) == <<v>>
IsNone(o) == o = <<>>
IsSome(o) == o # <<>>
Get(o) == o[1]

\* ---------------------------------------------------------------- text

Repeat(c, n) == [i \in 1..n |-> c]

\* Python's s[:n]
Take(s, n) == SubSeq(s, 1, IF Len(s) < n THEN Len(s) ELSE n)

IsPrefix(p, s) == Len(p) <= Len(s) /\ SubSeq(s, 1, Len(p)) = p

Digit(d) == <<"0", "1", "2", "3", "4", "5", "6", "7", "8", "9">>[d + 1]

\* str(n) of a non-negative int
RECURSIVE Str(_)
Str(n) == IF n < 10 THEN <<Digit(n)>> ELSE Str(n \div 10) \o <<Digit(n % 10)>>

\* ---------------------------------------------------------------- probe.py: tcp_connect

\* timeout_s defaults, in milliseconds
TcpTimeoutMs == 1000
HttpTimeoutMs == 1500

\* what the network does to the one connection attempt
ConnectEvents == {"connected", "refused", "unreachable", "timedout", "gaierror"}

\* the environment of one tcp_connect call: whether socket.socket() succeeds,
\* what happens to the connection attempt, whether s.close() raises
TcpEnvs == [create : {"ok", "oserror"}, event : ConnectEvents, close : {"ok", "oserror"}]

Errno == [refused |-> 111, unreachable |-> 101, timedout |-> 11]

\* s.connect_ex((host, port)) on a socket with a timeout set: the error of the
\* C-level connect is returned, not raised, and that includes the expiry of the
\* socket timeout (EAGAIN/EWOULDBLOCK); a failed name lookup raises.
\* raises = "" is a normal return.
connect_ex(event) ==
  CASE event = "connected"   -> [raises |-> "", rc |-> 0]
    [] event = "refused"     -> [raises |-> "", rc |-> Errno.refused]
    [] event = "unreachable" -> [raises |-> "", rc |-> Errno.unreachable]
    [] event = "timedout"    -> [raises |-> "", rc |-> Errno.timedout]
    [] event = "gaierror"    -> [raises |-> "gaierror", rc |-> 0]

\* how long the attempt blocks the caller
ConnectMs(event) == IF event = "timedout" THEN TcpTimeoutMs ELSE 0

\* tcp_connect(host, port): raises = "" and a classification, or the exception
\* that leaves the call; attempts counts the connection attempts made and
\* leaked the sockets created and not closed when the call is left.
tcp_connect(env) ==
  IF env.create = "oserror"
  THEN \* socket.socket() is outside the try
       [raises |-> "OSError", value |-> "", attempts |-> 0, leaked |-> 0, ms |-> 0]
  ELSE LET r == connect_ex(env.event)
           value == CASE r.raises = "" /\ r.rc = 0   -> "open"
                      [] r.raises = "" /\ r.rc # 0   -> "closed"
                      [] r.raises = "timeout"        -> "timeout"
                      [] OTHER                       -> "closed"
       IN  \* finally: s.close(), whose own failure is swallowed; the descriptor
           \* is released either way
           [raises |-> "", value |-> value, attempts |-> 1, leaked |-> 0,
            ms |-> ConnectMs(env.event)]

\* ---------------------------------------------------------------- probe.py: http_fetch

SnippetMax == 512

RequestErrorPrefix ==
  <<"(", "r", "e", "q", "u", "e", "s", "t", " ", "e", "r", "r", "o", "r", ":", " ">>

HTTPProbe(status, headers, body_snippet) ==
  [status |-> status, headers |-> headers, body_snippet |-> body_snippet]

\* "\r\n".join(f"{k}: {v}" for k, v in resp.headers.items())
RECURSIVE JoinHeaders(_)
JoinHeaders(hs) ==
  IF hs = <<>> THEN <<>>
  ELSE LET line == hs[1].k \o <<":", " ">> \o hs[1].v
       IN  IF Len(hs) = 1 THEN line
           ELSE line \o <<"\r", "\n">> \o JoinHeaders(Tail(hs))

\* http_fetch with the failure reported as an empty header block instead of an
\* absent one
http_fetch_empty_headers(env) ==
  CASE env.kind = "response" ->
         [raises |-> "",
          probe |-> HTTPProbe(Some(env.status), Some(JoinHeaders(env.headers)),
                              Some(IF env.textRaises THEN Take(env.content, SnippetMax)
                                                     ELSE Take(env.text, SnippetMax))),
          ms |-> 0]
    [] env.kind = "request_error" ->
         [raises |-> "",
          probe |-> HTTPProbe(None, Some(<<>>), Some(RequestErrorPrefix \o env.desc \o <<")">>)),
          ms |-> IF env.timedOut THEN HttpTimeoutMs ELSE 0]
    [] env.kind = "other_error" ->
         [raises |-> "Exception", probe |-> HTTPProbe(None, None, None), ms |-> 0]

\* http_fetch(scheme, host, port) in an environment env:
\*   kind = "response": a response was received (status, headers, text); textRaises
\*          says that resp.text raises, and then content is what
\*          resp.content.decode("utf-8", errors="replace") gives;
\*   kind = "request_error": requests.get raised a RequestException (desc = str(e),
\*          timedOut says that it was the timeout that expired);
\*   kind = "other_error": requests.get raised something else.
http_fetch(env) ==
  CASE env.kind = "response" ->
         [raises |-> "",
          probe |-> HTTPProbe(Some(env.status), Some(JoinHeaders(env.headers)),
                              Some(IF env.textRaises THEN Take(env.content, SnippetMax)
                                                     ELSE Take(env.text, SnippetMax))),
          ms |-> 0]
    [] env.kind = "request_error" ->
         [raises |-> "",
          probe |-> HTTPProbe(None, None, Some(RequestErrorPrefix \o env.desc \o <<")">>)),
          ms |-> IF env.timedOut THEN HttpTimeoutMs ELSE 0]
    [] env.kind = "other_error" ->
         [raises |-> "Exception", probe |-> HTTPProbe(None, None, None), ms |-> 0]

\* the environments of an http_fetch call
Header(k, v) == [k |-> k, v |-> v]
ServerHeader == Header(<<"S", "e", "r", "v", "e", "r">>, <<"R", "o", "u", "t", "e", "r", "O", "S">>)
TypeHeader == Header(<<"T", "y", "p", "e">>, <<"h", "t", "m", "l">>)
HeaderLists == {<<>>, <<ServerHeader>>, <<TypeHeader, ServerHeader>>}

LoginBody == <<"l", "o", "g", "i", "n">>
\* body lengths around the snippet limit
BodyLens == {0, 1, SnippetMax - 1, SnippetMax, SnippetMax + 1}
Bodies == {Repeat("a", n) : n \in BodyLens} \cup {LoginBody}
Statuses == {200, 401}
ErrorTexts == {<<"r", "e", "f", "u", "s", "e", "d">>, <<>>}

HttpEnv(kind, status, headers, text, textRaises, content, desc, timedOut) ==
  [kind |-> kind, status |-> status, headers |-> headers, text |-> text,
   textRaises |-> textRaises, content |-> content, desc |-> desc, timedOut |-> timedOut]

ResponseEnvs ==
  {HttpEnv("response", st, hs, b, FALSE, b, <<>>, FALSE) :
     st \in Statuses, hs \in HeaderLists, b \in Bodies}
  \cup {HttpEnv("response", 200, <<ServerHeader>>, <<>>, TRUE, b, <<>>, FALSE) : b \in Bodies}
RequestErrorEnvs ==
  {HttpEnv("request_error", 0, <<>>, <<>>, FALSE, <<>>, d, t) :
     d \in ErrorTexts, t \in BOOLEAN}
OtherErrorEnvs == {HttpEnv("other_error", 0, <<>>, <<>>, FALSE, <<>>, <<>>, FALSE)}
HttpEnvs == ResponseEnvs \cup RequestErrorEnvs \cup OtherErrorEnvs

\* ---------------------------------------------------------------- models.py

Protocols == {"tcp", "http", "https"}
RuleTargets == {"headers", "body", "status"}
Severities == {"info", "warning", "issue"}

PortMin == 1
PortMax == 65535

\* a check as written in checks.yaml: protocol may be omitted (None)
RawCheck(name, port, protocol) == [name |-> name, port |-> port, protocol |-> protocol]

\* PortCheck: port in [1, 65535], protocol in the closed set with default tcp
\* (severity and advice play no part in a scan and are left out)
PortCheckValid(raw) ==
  /\ raw.port >= PortMin /\ raw.port <= PortMax
  /\ IsNone(raw.protocol) \/ Get(raw.protocol) \in Protocols

PortCheck(raw) ==
  [name |-> raw.name, port |-> raw.port,
   protocol |-> IF IsNone(raw.protocol) THEN "tcp" ELSE Get(raw.protocol)]

\* RegexRule: target and severity in their closed sets; the pattern is opaque text
RegexRuleValid(raw) == raw.target \in RuleTargets /\ raw.severity \in Severities

\* ---------------------------------------------------------------- utils.py

\* a file of the configs directory: state is "missing" (no such file),
\* "unreadable" (exists, cannot be opened), "malformed" (not YAML), "empty" (an
\* empty document) or "mapping" (a mapping whose one key holds items)
ConfigFile(state, items) == [state |-> state, items |-> items]

Raise(type, msg) == [raises |-> type, msg |-> msg, value |-> <<>>]
Return(value) == [raises |-> "", msg |-> "", value |-> value]

\* load_yaml_raw(rel_path): data is the parsed mapping, hasKey whether it holds
\* the list (yaml.safe_load(f) or {} makes an empty document the empty mapping)
load_yaml_raw(rel_path, file) ==
  CASE file.state = "missing"    -> Raise("FileNotFoundError", <<"Config not found", rel_path>>)
    [] file.state = "unreadable" -> Raise("PermissionError", <<"Permission denied", rel_path>>)
    [] file.state = "malformed"  -> Raise("YAMLError", <<"while parsing", rel_path>>)
    [] file.state = "empty"      -> Return([hasKey |-> FALSE, items |-> <<>>])
    [] file.state = "mapping"    -> Return([hasKey |-> TRUE, items |-> file.items])

\* model.model_validate(data) for the two schemas: "" when valid, else the
\* description of the violations
model_validate(model, data) ==
  IF ~data.hasKey THEN "Field required"
  ELSE IF model = "ChecksConfig"
       THEN IF \A i \in 1..Len(data.items) : PortCheckValid(data.items[i])
            THEN "" ELSE "Input should be valid"
       ELSE IF \A i \in 1..Len(data.items) : RegexRuleValid(data.items[i])
            THEN "" ELSE "Input should be valid"

Validated(model, data) ==
  IF model = "ChecksConfig"
  THEN [i \in 1..Len(data.items) |-> PortCheck(data.items[i])]
  ELSE data.items

\* load_and_validate(rel_path, model)
load_and_validate(rel_path, file, model) ==
  LET raw == load_yaml_raw(rel_path, file)
  IN  IF raw.raises # "" THEN raw
      ELSE LET violation == model_validate(model, raw.value)
           IN  IF violation # ""
               THEN Raise("ValueError", <<"Invalid config in", rel_path, violation>>)
               ELSE Return(Validated(model, raw.value))

\* ---------------------------------------------------------------- main.py: responses

\* an HTTPException(status_code=500, detail=...) raised by a handler
HttpError(exc) ==
  [status |-> 500, detail |-> Some(exc.msg), error |-> Some(exc.msg), body |-> None]
\* an exception that leaves the handler: the server answers 500 with no detail
Unhandled(exc) ==
  [status |-> 500, detail |-> None, error |-> Some(exc.msg), body |-> None]
Ok(body) == [status |-> 200, detail |-> None, error |-> None, body |-> Some(body)]

\* get_checks_config / get_rules_config: except (FileNotFoundError, ValueError)
ConfigResponse(loaded) ==
  IF loaded.raises = "" THEN Ok(loaded.value)
  ELSE IF loaded.raises \in {"FileNotFoundError", "ValueError"} THEN HttpError(loaded)
  ELSE Unhandled(loaded)

\* api_scan: except Exception
ScanResponse(outcome) ==
  IF outcome.raises = "" THEN Ok(outcome.value) ELSE HttpError(outcome)

\* ---------------------------------------------------------------- rules.py

EvidenceMax == 160

\* A pattern of rules.yaml, in the part of the regex language the rules use:
\*   "lit"     the literal text (the empty pattern when text is empty)
\*   "full"    ^text$
\*   "plus"    c+ for the one character c of text
\*   "invalid" a pattern re.compile rejects, such as an unclosed group
Pattern(kind, text) == [kind |-> kind, text |-> text]

\* re.compile(rule.pattern): whether it raises re.error
CompileFails(pattern) == pattern.kind = "invalid"

\* blob[i:j] for Python offsets
Slice(blob, i, j) == SubSeq(blob, i + 1, j)

Min(S) == CHOOSE x \in S : \A y \in S : x <= y

\* rx.search(blob): None, or the (start, end) of the leftmost match
Search(pattern, blob) ==
  CASE pattern.kind = "lit" ->
         LET n == Len(pattern.text)
             hits == {i \in 0..(Len(blob) - n) : Slice(blob, i, i + n) = pattern.text}
         IN  IF hits = {} THEN None
             ELSE Some([start |-> Min(hits), end |-> Min(hits) + n])
    [] pattern.kind = "full" ->
         IF blob = pattern.text THEN Some([start |-> 0, end |-> Len(blob)]) ELSE None
    [] pattern.kind = "plus" ->
         LET c == pattern.text[1]
             hits == {i \in 1..Len(blob) : blob[i] = c}
         IN  IF hits = {} THEN None
             ELSE LET first == Min(hits)
                      \* the run of c that begins at first is consumed greedily
                      stops == {j \in first..Len(blob) : j = Len(blob) \/ blob[j + 1] # c}
                  IN  Some([start |-> first - 1, end |-> Min(stops)])

\* _blob_for(chk, target)
blob_for(chk, target) ==
  LET http == chk.http
  IN  IF IsNone(http) THEN None    \* {}.get(...) is None
      ELSE CASE target = "headers" -> Get(http).headers
             [] target = "status"  -> IF IsSome(Get(http).status)
                                      THEN Some(Str(Get(Get(http).status))) ELSE None
             [] target = "body"    -> Get(http).body_snippet
             [] OTHER              -> None

Finding(rule_id, check, severity, advice, evidence) ==
  [rule_id |-> rule_id, check |-> check, severity |-> severity, advice |-> advice,
   evidence |-> evidence]

\* the whole match, not cut
EvidenceWhole(blob, m) == Slice(blob, m.start, m.end)

\* blob[m.start():m.end()][:160]
Evidence(blob, m) == Take(Slice(blob, m.start, m.end), EvidenceMax)

\* the finding of an invalid pattern with the rule's own severity kept
InvalidRegexFindingOwnSeverity(chk, rule) ==
  Finding(rule.id, chk.name, rule.severity, "Invalid regex in rules.yaml", None)

\* the finding appended in: except re.error
InvalidRegexFinding(chk, rule) ==
  Finding(rule.id, chk.name, "warning", "Invalid regex in rules.yaml", None)

\* the body of the inner loop of apply_rules for one check and one rule: the
\* findings it appends (none or one)
EvalRule(chk, rule) ==
  LET blob == blob_for(chk, rule.target)
  IN  IF IsNone(blob) \/ Get(blob) = <<>> THEN <<>>
      ELSE IF CompileFails(rule.pattern) THEN <<InvalidRegexFinding(chk, rule)>>
      ELSE LET m == Search(rule.pattern, Get(blob))
           IN  IF IsNone(m) THEN <<>>
               ELSE <<Finding(rule.id, chk.name, rule.severity, rule.advice,
                              Some(Evidence(Get(blob), Get(m))))>>

\* ---------------------------------------------------------------- bounds and inputs

\* the longest list of checks in checks.yaml
MaxChecks == 2

RawCheckPool ==
  { RawCheck("ui", 80, Some("http")),
    RawCheck("ui", 443, Some("https")),
    RawCheck("ssh", 22, None),
    RawCheck("bad", 65536, Some("tcp")) }

RawRulePool ==
  { [id |-> "r1", target |-> "headers", severity |-> "issue"],
    [id |-> "r2", target |-> "cookie", severity |-> "info"] }

SeqsUpTo(S, n) == UNION {[1..k -> S] : k \in 0..n}

ChecksFiles ==
  {ConfigFile(st, <<>>) : st \in {"missing", "unreadable", "malformed", "empty"}}
  \cup {ConfigFile("mapping", cs) : cs \in SeqsUpTo(RawCheckPool, MaxChecks)}

RulesFiles ==
  {ConfigFile(st, <<>>) : st \in {"missing", "malformed"}}
  \cup {ConfigFile("mapping", rs) : rs \in SeqsUpTo(RawRulePool, 1)}

\* TARGET_IP: unset/empty, or an address
TargetIps == {"", "192.0.2.7"}
\* find_default_gateway: the address found, or "" when none could be determined
GatewayOutcomes == {"", "192.168.1.1"}
\* the time, in milliseconds, at which the request arrives
ClockStarts == {0, 400}

\* the environments met by the probes of a scan
ScanTcpEnvs ==
  {[create |-> "ok", event |-> e, close |-> "ok"] : e \in {"connected", "refused", "timedout"}}
  \cup {[create |-> "oserror", event |-> "connected", close |-> "ok"]}
ScanHttpEnvs ==
  { HttpEnv("response", 200, <<ServerHeader>>, LoginBody, FALSE, LoginBody, <<>>, FALSE),
    HttpEnv("request_error", 0, <<>>, <<>>, FALSE, <<>>, <<"r", "e", "f", "u", "s", "e", "d">>, TRUE),
    HttpEnv("other_error", 0, <<>>, <<>>, FALSE, <<>>, <<>>, FALSE) }

\* the longest snapshot and the longest rules configuration given to apply_rules
MaxSnapChecks == 2
MaxRules == 2

\* an entry of snapshot["checks"]: the CheckResult as a dict, http flattened
SnapHttp(name, port, env) ==
  [name |-> name, port |-> port, protocol |-> "http", tcp_connect |-> Some("open"),
   http |-> Some(http_fetch(env).probe), error |-> None, duration_ms |-> 0]

LongBody == Repeat("a", EvidenceMax + 2) \o <<"b">> \o Repeat("a", 3)

SnapCheckPool ==
  { SnapHttp("ui", 80, HttpEnv("response", 200, <<ServerHeader>>, LoginBody, FALSE, LoginBody, <<>>, FALSE)),
    SnapHttp("ui", 8080, HttpEnv("request_error", 0, <<>>, <<>>, FALSE, <<>>, <<"a", "a">>, FALSE)),
    SnapHttp("big", 81, HttpEnv("response", 401, <<>>, LongBody, FALSE, LongBody, <<>>, FALSE)),
    [name |-> "ssh", port |-> 22, protocol |-> "tcp", tcp_connect |-> Some("closed"),
     http |-> None, error |-> None, duration_ms |-> 0] }

Rule(id, target, pattern, severity, advice) ==
  [id |-> id, target |-> target, pattern |-> pattern, severity |-> severity, advice |-> advice]

RulePool ==
  { Rule("r1", "headers", Pattern("lit", <<"R", "o", "u", "t", "e", "r", "O", "S">>), "issue", "banner"),
    Rule("r2", "status", Pattern("full", <<"2", "0", "0">>), "info", "ok"),
    Rule("r3", "body", Pattern("plus", <<"a">>), "issue", "filler"),
    Rule("r4", "body", Pattern("invalid", <<"(">>), "issue", "broken"),
    Rule("r5", "headers", Pattern("lit", <<>>), "info", "any") }

\* ---------------------------------------------------------------- state

VARIABLES
  \* the environment: the two configuration files, TARGET_IP, the clock (ms)
  checksYaml, rulesYaml, envTargetIp, clock,
  \* the request being served: its endpoint ("" before it arrives), the
  \* position of scan_once, its locals, what it returned or raised, the response
  endpoint, pc, checks_cfg, target_ip, started, idx, results, snapshot, raised, response,
  \* history: the probes issued, the calls of find_default_gateway, how the
  \* load and the target resolution ended ("", "ok", "failed")
  probeLog, gatewayCalls, loadOutcome, resolveOutcome,
  \* direct calls of the two low-level probes
  tcpEnv, tcpRet, httpEnv, httpRet,
  \* a call of apply_rules: the checks of its snapshot, the rules of its
  \* configuration, its position ("idle", "loop", "returned"), the loop indices,
  \* its findings, and for each finding the (check, rule) positions it came from
  snapChecks, rules, rpc, ci, ri, findings, origin

envVars == <<checksYaml, rulesYaml, envTargetIp>>
scanVars == <<clock, endpoint, pc, checks_cfg, target_ip, started, idx, results, snapshot,
              raised, response, probeLog, gatewayCalls, loadOutcome, resolveOutcome>>
probeVars == <<tcpEnv, tcpRet, httpEnv, httpRet>>
ruleVars == <<snapChecks, rules, rpc, ci, ri, findings, origin>>
vars == <<envVars, scanVars, probeVars, ruleVars>>

ScanIdle ==
  /\ endpoint = "" /\ pc = "idle"
  /\ checks_cfg = <<>> /\ target_ip = "" /\ started = 0 /\ idx = 0
  /\ results = <<>> /\ snapshot = None /\ raised = None /\ response = None
  /\ probeLog = <<>> /\ gatewayCalls = 0 /\ loadOutcome = "" /\ resolveOutcome = ""

ProbeIdle ==
  /\ tcpEnv = None /\ tcpRet = None
  /\ httpEnv = None /\ httpRet = None

RulesIdle ==
  /\ snapChecks = <<>> /\ rules = <<>> /\ rpc = "idle" /\ ci = 0 /\ ri = 0
  /\ findings = <<>> /\ origin = <<>>

\* ---------------------------------------------------------------- probe.py: scan_once

CheckResult(name, port, protocol, tcp, http, error, duration_ms) ==
  [name |-> name, port |-> port, protocol |-> protocol, tcp_connect |-> tcp,
   http |-> http, error |-> error, duration_ms |-> duration_ms]

\* results.insert(0, item) in place of results.append(item)
PrependResult(rs, item) == <<item>> \o rs

\* results.append(item)
AppendResult(rs, item) == Append(rs, item)

\* datetime.utcnow().isoformat(timespec="seconds") + "Z" at time t (ms): the
\* whole seconds, with the suffix
IsoSeconds(t) == [seconds |-> t \div 1000, suffix |-> "Z"]

\* one iteration of the loop over checks_cfg.checks, begun at time t0 with the
\* environments te (of tcp_connect) and he (of http_fetch): the exception that
\* leaves it or the item appended, the time at its end, the probes it issued
RunCheck(chk, i, t0, te, he) ==
  LET tcp == tcp_connect(te)
      tcpEntry == [kind |-> "tcp", check |-> i, at |-> t0]
      t1 == t0 + tcp.ms
  IN  IF chk.protocol = "tcp"
      THEN IF tcp.raises # ""
           THEN [raises |-> tcp.raises, item |-> <<>>, end |-> t0, log |-> <<tcpEntry>>]
           ELSE [raises |-> "",
                 item |-> Some(CheckResult(chk.name, chk.port, chk.protocol,
                                           Some(tcp.value), None, None, t1 - t0)),
                 end |-> t1, log |-> <<tcpEntry>>]
      ELSE IF chk.protocol \in {"http", "https"}
      THEN IF tcp.raises # ""
           THEN [raises |-> tcp.raises, item |-> <<>>, end |-> t0, log |-> <<tcpEntry>>]
           ELSE LET h == http_fetch(he)
                    t2 == t1 + h.ms
                    httpEntry == [kind |-> "http", check |-> i, at |-> t1]
                IN  [raises |-> "",
                     item |-> Some(CheckResult(chk.name, chk.port, chk.protocol,
                                 Some(tcp.value),
                                 IF h.raises = "" THEN Some(h.probe) ELSE None,
                                 IF h.raises = "" THEN None ELSE Some("http_fetch error"),
                                 t2 - t0)),
                     end |-> t2, log |-> <<tcpEntry, httpEntry>>]
      ELSE [raises |-> "",
            item |-> Some(CheckResult(chk.name, chk.port, chk.protocol,
                                      None, None, Some("unknown protocol"), 0)),
            end |-> t0, log |-> <<>>]

\* the snapshot dict
Snapshot(target, started_at, duration_ms, checks) ==
  [target |-> target, started_at |-> started_at, duration_ms |-> duration_ms, checks |-> checks]

Init ==
  /\ checksYaml \in ChecksFiles
  /\ rulesYaml \in RulesFiles
  /\ envTargetIp \in TargetIps
  /\ clock \in ClockStarts
  /\ ScanIdle
  /\ ProbeIdle
  /\ RulesIdle

\* GET /api/configs/checks
get_checks_config ==
  /\ endpoint = ""
  /\ endpoint' = "checks"
  /\ response' = Some(ConfigResponse(load_and_validate("checks.yaml", checksYaml, "ChecksConfig")))
  /\ UNCHANGED <<envVars, probeVars, ruleVars, clock, pc, checks_cfg, target_ip, started, idx, results,
                 snapshot, raised, probeLog, gatewayCalls, loadOutcome, resolveOutcome>>

\* GET /api/configs/rules
get_rules_config ==
  /\ endpoint = ""
  /\ endpoint' = "rules"
  /\ response' = Some(ConfigResponse(load_and_validate("rules.yaml", rulesYaml, "RulesConfig")))
  /\ UNCHANGED <<envVars, probeVars, ruleVars, clock, pc, checks_cfg, target_ip, started, idx, results,
                 snapshot, raised, probeLog, gatewayCalls, loadOutcome, resolveOutcome>>

\* GET /api/scan arrives: api_scan calls scan_once
api_scan ==
  /\ endpoint = ""
  /\ endpoint' = "scan"
  /\ pc' = "load"
  /\ UNCHANGED <<envVars, probeVars, ruleVars, clock, checks_cfg, target_ip, started, idx, results,
                 snapshot, raised, response, probeLog, gatewayCalls, loadOutcome, resolveOutcome>>

\* a load whose failure is swallowed: the scan goes on with no checks
ScanLoadConfigSwallowed ==
  /\ pc = "load"
  /\ LET loaded == load_and_validate("checks.yaml", checksYaml, "ChecksConfig")
     IN  /\ checks_cfg' = loaded.value
         /\ loadOutcome' = IF loaded.raises # "" THEN "failed" ELSE "ok"
         /\ pc' = "resolve"
  /\ UNCHANGED <<envVars, probeVars, ruleVars, clock, endpoint, target_ip, started, idx, results,
                 snapshot, raised, response, probeLog, gatewayCalls, resolveOutcome>>

\* scan_once, 1) load config
ScanLoadConfig ==
  /\ pc = "load"
  /\ LET loaded == load_and_validate("checks.yaml", checksYaml, "ChecksConfig")
     IN  IF loaded.raises # ""
         THEN /\ raised' = Some(loaded)
              /\ loadOutcome' = "failed"
              /\ pc' = "raised"
              /\ UNCHANGED checks_cfg
         ELSE /\ checks_cfg' = loaded.value
              /\ loadOutcome' = "ok"
              /\ pc' = "resolve"
              /\ UNCHANGED raised
  /\ UNCHANGED <<envVars, probeVars, ruleVars, clock, endpoint, target_ip, started, idx, results,
                 snapshot, response, probeLog, gatewayCalls, resolveOutcome>>

\* scan_once, 2) find target: os.getenv("TARGET_IP") or find_default_gateway(),
\* then started = time.perf_counter() and results = []
ScanResolveTarget ==
  /\ pc = "resolve"
  /\ \E gw \in GatewayOutcomes :
       LET discovers == envTargetIp = ""
           found == IF discovers THEN gw ELSE envTargetIp
       IN  /\ gatewayCalls' = IF discovers THEN gatewayCalls + 1 ELSE gatewayCalls
           /\ IF found = ""
              THEN /\ raised' = Some(Raise("RuntimeError", <<"Could not determine default gateway IP on this OS.">>))
                   /\ resolveOutcome' = "failed"
                   /\ pc' = "raised"
                   /\ UNCHANGED <<target_ip, started, idx, results>>
              ELSE /\ target_ip' = found
                   /\ resolveOutcome' = "ok"
                   /\ started' = clock
                   /\ results' = <<>>
                   /\ idx' = 1
                   /\ pc' = "probe"
                   /\ UNCHANGED raised
  /\ UNCHANGED <<envVars, probeVars, ruleVars, clock, endpoint, checks_cfg, snapshot, response,
                 probeLog, loadOutcome>>

\* scan_once, one iteration of: for chk in checks_cfg.checks
ScanProbeCheck ==
  /\ pc = "probe"
  /\ idx <= Len(checks_cfg)
  /\ \E te \in ScanTcpEnvs, he \in ScanHttpEnvs :
       LET r == RunCheck(checks_cfg[idx], idx, clock, te, he)
       IN  /\ probeLog' = probeLog \o r.log
           /\ clock' = r.end
           /\ IF r.raises # ""
              THEN /\ raised' = Some(Raise(r.raises, <<"Too many open files">>))
                   /\ pc' = "raised"
                   /\ UNCHANGED <<results, idx>>
              ELSE /\ results' = AppendResult(results, Get(r.item))
                   /\ idx' = idx + 1
                   /\ UNCHANGED <<raised, pc>>
  /\ UNCHANGED <<envVars, probeVars, ruleVars, endpoint, checks_cfg, target_ip, started, snapshot,
                 response, gatewayCalls, loadOutcome, resolveOutcome>>

\* scan_once, after the loop: total_ms, 3) build snapshot, return
ScanBuildSnapshot ==
  /\ pc = "probe"
  /\ idx > Len(checks_cfg)
  /\ snapshot' = Some(Snapshot(target_ip, IsoSeconds(clock), clock - started, results))
  /\ pc' = "returned"
  /\ UNCHANGED <<envVars, probeVars, ruleVars, clock, endpoint, checks_cfg, target_ip, started, idx,
                 results, raised, response, probeLog, gatewayCalls, loadOutcome, resolveOutcome>>

\* api_scan: return scan_once(), or except Exception -> HTTPException(500)
ApiScanRespond ==
  /\ pc \in {"returned", "raised"}
  /\ response' = Some(ScanResponse(IF pc = "returned" THEN Return(Get(snapshot)) ELSE Get(raised)))
  /\ pc' = "responded"
  /\ UNCHANGED <<envVars, probeVars, ruleVars, clock, endpoint, checks_cfg, target_ip, started, idx,
                 results, snapshot, raised, probeLog, gatewayCalls, loadOutcome, resolveOutcome>>

Next ==
  \/ get_checks_config
  \/ get_rules_config
  \/ api_scan
  \/ ScanLoadConfig
  \/ ScanResolveTarget
  \/ ScanProbeCheck
  \/ ScanBuildSnapshot
  \/ ApiScanRespond

Spec == Init /\ [][Next]_vars

\* ---------------------------------------------------------------- claims on the scan and the endpoints

ConfiguredProtocol(raw) == IF IsNone(raw.protocol) THEN "tcp" ELSE Get(raw.protocol)
ProbesOfKind(kind) == SelectSeq(probeLog, LAMBDA e : e.kind = kind)

\* C1: a scan_once call that returns a snapshot has executed each configured
\* check exactly once, in configured order: snapshot.checks is as long as the
\* configured list, its i-th entry carries the name, port and protocol of the
\* i-th configured check, and the probes were issued check by check, one
\* tcp_connect per check and one http_fetch per http/https check.
C1_ScanRunsEachCheckOnceInOrder ==
  IsSome(snapshot) =>
    LET configured == checksYaml.items
        out == Get(snapshot).checks
        tcps == ProbesOfKind("tcp")
        https == ProbesOfKind("http")
    IN  /\ Len(out) = Len(configured)
        /\ \A i \in 1..Len(configured) :
             /\ out[i].name = configured[i].name
             /\ out[i].port = configured[i].port
             /\ out[i].protocol = ConfiguredProtocol(configured[i])
             /\ Cardinality({k \in 1..Len(https) : https[k].check = i})
                  = IF ConfiguredProtocol(configured[i]) = "tcp" THEN 0 ELSE 1
        /\ Len(tcps) = Len(configured)
        /\ \A i \in 1..Len(tcps) : tcps[i].check = i
        /\ \A k \in 1..(Len(probeLog) - 1) : probeLog[k].check <= probeLog[k + 1].check

\* a snapshot of two different checks, an http one and then a tcp one
C1_Witness ==
  /\ IsSome(snapshot)
  /\ Len(Get(snapshot).checks) = 2
  /\ Get(snapshot).checks[1].protocol = "http"
  /\ Get(snapshot).checks[2].protocol = "tcp"

\* C2: once scan_once has loaded the configuration and resolved the target, no
\* failure of a check aborts the batch: the scan ends with a snapshot that holds
\* a result for every configured check, never with an exception.
C2_CheckFailureNeverAbortsBatch ==
  (loadOutcome = "ok" /\ resolveOutcome = "ok" /\ pc \in {"returned", "raised", "responded"}) =>
    /\ IsNone(raised)
    /\ IsSome(snapshot)
    /\ Len(Get(snapshot).checks) = Len(checks_cfg)

\* C3: every failure of GET /api/configs/checks, /api/configs/rules or /api/scan
\* is answered with HTTP 500 and a detail equal to the error's description.
C3_EveryFailureIs500WithDetail ==
  (IsSome(response) /\ IsSome(Get(response).error)) =>
    /\ Get(response).status = 500
    /\ IsSome(Get(response).detail)
    /\ Get(response).detail = Get(response).error

\* C4: scan_once loads the configuration, then resolves the target, then probes:
\* when the load fails the scan raises the loader's error and find_default_gateway
\* has not been called; when the load or the resolution fails there is no
\* snapshot and no probe has been issued; nothing is resolved before the load
\* succeeded and nothing is probed before the target was resolved.
C4_LoadThenResolveThenProbe ==
  /\ loadOutcome = "failed" =>
       /\ pc \in {"raised", "responded"}
       /\ IsSome(raised)
       /\ Get(raised).raises \in {"FileNotFoundError", "ValueError", "YAMLError", "PermissionError"}
       /\ gatewayCalls = 0 /\ resolveOutcome = ""
       /\ probeLog = <<>> /\ IsNone(snapshot)
  /\ resolveOutcome = "failed" =>
       /\ pc \in {"raised", "responded"}
       /\ IsSome(raised)
       /\ Get(raised).raises = "RuntimeError"
       /\ probeLog = <<>> /\ IsNone(snapshot)
  /\ (gatewayCalls > 0 \/ resolveOutcome # "") => loadOutcome = "ok"
  /\ probeLog # <<>> => (loadOutcome = "ok" /\ resolveOutcome = "ok")

\* the load of checks.yaml failed and the scan has raised
C4_Witness ==
  /\ loadOutcome = "failed"
  /\ pc = "raised"
  /\ checksYaml.state = "mapping"

\* C10: the snapshot's started_at is the time at which scan_once began probing:
\* it is the timestamp of the moment the duration measurement started, it is not
\* later than the start of any probe, and started_at plus duration_ms is the
\* time the last check finished.
C10_StartedAtIsScanStart ==
  IsSome(snapshot) =>
    LET snap == Get(snapshot)
    IN  /\ snap.started_at = IsoSeconds(started)
        /\ \A k \in 1..Len(probeLog) : snap.started_at.seconds <= probeLog[k].at \div 1000
        /\ IsoSeconds(started + snap.duration_ms) = IsoSeconds(clock)

\* ---------------------------------------------------------------- the probes, called directly

InitProbe ==
  /\ checksYaml = ConfigFile("missing", <<>>)
  /\ rulesYaml = ConfigFile("missing", <<>>)
  /\ envTargetIp = ""
  /\ clock = 0
  /\ ScanIdle
  /\ ProbeIdle
  /\ RulesIdle

CallTcpConnect ==
  \E env \in TcpEnvs :
    /\ tcpEnv' = Some(env)
    /\ tcpRet' = Some(tcp_connect(env))
    /\ UNCHANGED <<envVars, scanVars, ruleVars, httpEnv, httpRet>>

CallHttpFetch ==
  \E env \in HttpEnvs :
    /\ httpEnv' = Some(env)
    /\ httpRet' = Some(http_fetch(env))
    /\ UNCHANGED <<envVars, scanVars, ruleVars, tcpEnv, tcpRet>>

NextProbe == CallTcpConnect \/ CallHttpFetch

SpecProbe == InitProbe /\ [][NextProbe]_vars

\* ---------------------------------------------------------------- rules.py: apply_rules

InitRules ==
  /\ checksYaml = ConfigFile("missing", <<>>)
  /\ rulesYaml = ConfigFile("missing", <<>>)
  /\ envTargetIp = ""
  /\ clock = 0
  /\ ScanIdle
  /\ ProbeIdle
  /\ snapChecks \in SeqsUpTo(SnapCheckPool, MaxSnapChecks)
  /\ rules \in SeqsUpTo(RulePool, MaxRules)
  /\ rpc = "idle" /\ ci = 0 /\ ri = 0
  /\ findings = <<>> /\ origin = <<>>

\* apply_rules(snapshot, rules_cfg) is called: findings = []
apply_rules ==
  /\ rpc = "idle"
  /\ rpc' = "loop"
  /\ ci' = 1 /\ ri' = 1
  /\ findings' = <<>> /\ origin' = <<>>
  /\ UNCHANGED <<envVars, scanVars, probeVars, snapChecks, rules>>

\* an iteration that drops a finding equal to one already collected
ApplyRulesStepDeduplicating ==
  /\ rpc = "loop"
  /\ ci <= Len(snapChecks)
  /\ ri <= Len(rules)
  /\ LET found == SelectSeq(EvalRule(snapChecks[ci], rules[ri]),
                            LAMBDA f : \A k \in 1..Len(findings) : findings[k] # f)
     IN  /\ findings' = findings \o found
         /\ origin' = origin \o [k \in 1..Len(found) |-> [check |-> ci, rule |-> ri]]
  /\ ri' = ri + 1
  /\ UNCHANGED <<envVars, scanVars, probeVars, snapChecks, rules, rpc, ci>>

\* one iteration of: for rule in rules_cfg.rules
ApplyRulesStep ==
  /\ rpc = "loop"
  /\ ci <= Len(snapChecks)
  /\ ri <= Len(rules)
  /\ LET found == EvalRule(snapChecks[ci], rules[ri])
     IN  /\ findings' = findings \o found
         /\ origin' = origin \o [k \in 1..Len(found) |-> [check |-> ci, rule |-> ri]]
  /\ ri' = ri + 1
  /\ UNCHANGED <<envVars, scanVars, probeVars, snapChecks, rules, rpc, ci>>

\* the rules are exhausted for this check: for chk in snapshot["checks"] goes on
ApplyRulesNextCheck ==
  /\ rpc = "loop"
  /\ ci <= Len(snapChecks)
  /\ ri > Len(rules)
  /\ ci' = ci + 1
  /\ ri' = 1
  /\ UNCHANGED <<envVars, scanVars, probeVars, snapChecks, rules, rpc, findings, origin>>

\* return findings
ApplyRulesReturn ==
  /\ rpc = "loop"
  /\ ci > Len(snapChecks)
  /\ rpc' = "returned"
  /\ UNCHANGED <<envVars, scanVars, probeVars, snapChecks, rules, ci, ri, findings, origin>>

NextRules == apply_rules \/ ApplyRulesStep \/ ApplyRulesNextCheck \/ ApplyRulesReturn

SpecRules == InitRules /\ [][NextRules]_vars

\* ---------------------------------------------------------------- claims on the rule engine

\* the (check, rule) pairs whose iteration is over
Passed(c, r) == rpc # "idle" /\ (c < ci \/ (c = ci /\ r < ri))
PassedPairs == {p \in (1..Len(snapChecks)) \X (1..Len(rules)) : Passed(p[1], p[2])}
FindingsOf(c, r) == {k \in 1..Len(origin) : origin[k] = [check |-> c, rule |-> r]}
Before(o1, o2) == o1.check < o2.check \/ (o1.check = o2.check /\ o1.rule < o2.rule)

\* the text a target names in an entry of the snapshot: the header block, the
\* decimal string of the status, the body snippet
TargetText(chk, target) ==
  IF IsNone(chk.http) THEN None
  ELSE IF target = "headers" THEN Get(chk.http).headers
  ELSE IF target = "status"
       THEN IF IsNone(Get(chk.http).status) THEN None ELSE Some(Str(Get(Get(chk.http).status)))
  ELSE Get(chk.http).body_snippet
HasText(chk, target) == IsSome(TargetText(chk, target)) /\ Len(Get(TargetText(chk, target))) > 0

\* the meaning of a valid pattern: a match may begin at offset i of the text, and
\* then the match taken ends at GreedyEnd
StartsAt(pattern, text, i) ==
  CASE pattern.kind = "lit"  -> /\ i + Len(pattern.text) <= Len(text)
                                /\ \A k \in 1..Len(pattern.text) : text[i + k] = pattern.text[k]
    [] pattern.kind = "full" -> i = 0 /\ text = pattern.text
    [] pattern.kind = "plus" -> i < Len(text) /\ text[i + 1] = pattern.text[1]
    [] OTHER -> FALSE
GreedyEnd(pattern, text, i) ==
  CASE pattern.kind = "lit"  -> i + Len(pattern.text)
    [] pattern.kind = "full" -> Len(text)
    [] pattern.kind = "plus" ->
         LET others == {k \in (i + 1)..Len(text) : text[k] # pattern.text[1]}
         IN  IF others = {} THEN Len(text) ELSE Min(others) - 1
MatchStarts(pattern, text) == {i \in 0..Len(text) : StartsAt(pattern, text, i)}

\* C5: the findings are in check-major, rule-minor order and nothing is
\* deduplicated: each (check, rule) pair gives at most one finding, the findings
\* are sorted by check position and then by rule position and are labelled with
\* that check's name and that rule's id, and two identical rules, or two
\* identical entries of the snapshot, each give their own finding.
C5_FindingsCheckMajorNoDedup ==
  /\ Len(origin) = Len(findings)
  /\ \A k \in 1..(Len(origin) - 1) : Before(origin[k], origin[k + 1])
  /\ \A k \in 1..Len(findings) :
       /\ findings[k].check = snapChecks[origin[k].check].name
       /\ findings[k].rule_id = rules[origin[k].rule].id
  /\ \A p \in PassedPairs, q \in PassedPairs :
       (snapChecks[p[1]] = snapChecks[q[1]] /\ rules[p[2]] = rules[q[2]]) =>
         Cardinality(FindingsOf(p[1], p[2])) = Cardinality(FindingsOf(q[1], q[2]))

\* two equal findings, of two identical rules, have been returned for two checks
C5_Witness ==
  /\ rpc = "returned"
  /\ Len(snapChecks) = 2 /\ snapChecks[1] # snapChecks[2]
  /\ Len(rules) = 2 /\ rules[1] = rules[2]
  /\ Len(findings) = 4
  /\ findings[1] = findings[2]

\* C6: a rule whose pattern does not compile gives, for each check whose text
\* for the rule's target is present and non-empty, exactly one finding with the
\* rule's id, the check's name, severity "warning" and evidence absent, and the
\* evaluation goes on; for a check whose text is absent or empty it gives none.
C6_InvalidPatternOneWarning ==
  \A p \in PassedPairs :
    LET chk == snapChecks[p[1]]
        rule == rules[p[2]]
        ks == FindingsOf(p[1], p[2])
    IN  rule.pattern.kind = "invalid" =>
          IF HasText(chk, rule.target)
          THEN /\ Cardinality(ks) = 1
               /\ \A k \in ks :
                    /\ findings[k].rule_id = rule.id
                    /\ findings[k].check = chk.name
                    /\ findings[k].severity = "warning"
                    /\ findings[k].evidence = None
          ELSE ks = {}

\* an invalid rule of severity "issue" gave its finding, and a later pair gave one
C6_Witness ==
  /\ rpc = "returned"
  /\ \E k \in 1..(Len(findings) - 1) :
       /\ rules[origin[k].rule].pattern.kind = "invalid"
       /\ rules[origin[k].rule].severity = "issue"
       /\ findings[k].evidence = None

\* C7: a rule with a valid pattern gives a finding for a check if and only if
\* the pattern matches somewhere in the non-empty text of the rule's target; the
\* finding carries the rule's id, the check's name, the rule's severity and
\* advice, and as evidence the first 160 characters of the first matched span.
C7_FindingIffMatchEvidenceCut ==
  \A p \in PassedPairs :
    LET chk == snapChecks[p[1]]
        rule == rules[p[2]]
        ks == FindingsOf(p[1], p[2])
    IN  rule.pattern.kind # "invalid" =>
          IF HasText(chk, rule.target)
             /\ MatchStarts(rule.pattern, Get(TargetText(chk, rule.target))) # {}
          THEN LET text == Get(TargetText(chk, rule.target))
                   first == Min(MatchStarts(rule.pattern, text))
                   span == Slice(text, first, GreedyEnd(rule.pattern, text, first))
               IN  /\ Cardinality(ks) = 1
                   /\ \A k \in ks :
                        /\ findings[k].rule_id = rule.id
                        /\ findings[k].check = chk.name
                        /\ findings[k].severity = rule.severity
                        /\ findings[k].advice = rule.advice
                        /\ IsSome(findings[k].evidence)
                        /\ Get(findings[k].evidence) = Take(span, 160)
                        /\ Len(Get(findings[k].evidence)) <= 160
          ELSE ks = {}

\* a match longer than 160 characters has given a finding
C7_Witness ==
  /\ rpc = "returned"
  /\ \E k \in 1..Len(findings) :
       /\ IsSome(findings[k].evidence)
       /\ Len(Get(findings[k].evidence)) = 160
       /\ Len(Get(snapChecks[origin[k].check].http).body_snippet[1]) > 160

\* ---------------------------------------------------------------- claims on the probes

\* C8: a tcp_connect call whose socket could be created makes one connection
\* attempt, does not raise, leaves no socket open, and returns "open" when the
\* connection succeeded, "timeout" when the attempt exceeded the timeout and
\* "closed" when it was refused or failed with any other socket-level error.
C8_TcpConnectClassifies ==
  (IsSome(tcpRet) /\ Get(tcpEnv).create = "ok") =>
    LET r == Get(tcpRet)
        e == Get(tcpEnv).event
    IN  /\ r.raises = ""
        /\ r.attempts = 1
        /\ r.leaked = 0
        /\ r.value = (CASE e = "connected" -> "open"
                        [] e = "timedout"  -> "timeout"
                        [] OTHER           -> "closed")

\* C9: http_fetch does not raise on a network-level failure of its GET: it
\* returns a probe with status and headers absent and a body_snippet that begins
\* "(request error:"; on a received response status and headers are present and
\* body_snippet has at most 512 characters; whenever it returns, status and
\* headers are present together or absent together.
C9_HttpFetchNeverRaisesOnNetworkFailure ==
  IsSome(httpRet) =>
    LET r == Get(httpRet)
        e == Get(httpEnv)
    IN  /\ e.kind = "request_error" =>
             /\ r.raises = ""
             /\ IsNone(r.probe.status) /\ IsNone(r.probe.headers)
             /\ IsSome(r.probe.body_snippet)
             /\ IsPrefix(<<"(", "r", "e", "q", "u", "e", "s", "t", " ", "e", "r", "r", "o", "r", ":">>,
                         Get(r.probe.body_snippet))
        /\ e.kind = "response" =>
             /\ r.raises = ""
             /\ IsSome(r.probe.status) /\ IsSome(r.probe.headers)
             /\ IsSome(r.probe.body_snippet)
             /\ Len(Get(r.probe.body_snippet)) <= 512
        /\ r.raises = "" => (IsNone(r.probe.status) <=> IsNone(r.probe.headers))

\* a GET that failed at the network level has been answered
C9_Witness ==
  /\ IsSome(httpRet)
  /\ Get(httpEnv).kind = "request_error"
  /\ Get(httpEnv).timedOut
  /\ Get(httpRet).raises = ""

====
